---- MODULE Spec2Model ----
(***************************************************************************)
(* Model of app.py, the Cape Town residual land value calculator: the      *)
(* zoning table, get_inputs, calculate_metrics, the memoized               *)
(* build_sensitivity_table, render_metrics and main.                       *)
(*                                                                         *)
(* Python evaluates the formulas in IEEE-754 binary64 with round to        *)
(* nearest, ties to even.  The arithmetic below is that arithmetic: a      *)
(* float is a sign, a 53-bit significand and a binary exponent, and every  *)
(* operation rounds its exact result once.  TLC's integers are 32 bits     *)
(* wide, so a significand is kept as limbs of 14 bits.  Subnormals,        *)
(* infinities and NaN are out of reach of the inputs modelled (magnitudes  *)
(* between 1e-13 and 1e12) and are not represented.                        *)
(***************************************************************************)
EXTENDS Integers, Sequences, FiniteSets, TLC

(***************************************************************************)
(* Natural numbers of up to 112 bits: 8 limbs of 14 bits, least            *)
(* significant first.  An intermediate value used more than once is passed *)
(* on as an operator parameter, which TLC evaluates once.                  *)
(***************************************************************************)
LimbBits == 7 * 2
NLimbs == 2 * 4
B == 2 ^ LimbBits
Limbs == 1 .. NLimbs
Pow2 == [k \in 0 .. LimbBits |-> 2 ^ k]

BZero == [i \in Limbs |-> 0]
BOne == [i \in Limbs |-> IF i = 1 THEN 1 ELSE 0]

Limb(a, i) == IF i \in Limbs THEN a[i] ELSE 0

RECURSIVE CarryFrom(_, _, _)
\* Carry propagation from limb i on, x being limb i with the carry into it.
\* A limb may hold up to 31 bits, or be negative (a borrow): \div and %
\* round towards minus infinity.
CarryFrom(w, i, x) ==
  IF i = NLimbs THEN <<x % B>>
  ELSE <<x % B>> \o CarryFrom(w, i + 1, w[i + 1] + (x \div B))

Carry(w) == CarryFrom(w, 1, w[1])

BFromInt(n) == Carry(<<n, 0, 0, 0, 0, 0, 0, 0>>)

BToInt(a) == a[1] + B * a[2] + B * B * a[3]

BAdd(a, b) == Carry([i \in Limbs |-> a[i] + b[i]])

\* a - b, for a >= b
BSub(a, b) == Carry([i \in Limbs |-> a[i] - b[i]])

\* a * k, for 0 <= k < 2^16
BMulSmall(a, k) == Carry([i \in Limbs |-> a[i] * k])

\* a * b, for a, b < 2^56 (limbs 5 to 8 zero)
BMul(a, b) ==
  Carry(<<a[1] * b[1],
          a[1] * b[2] + a[2] * b[1],
          a[1] * b[3] + a[2] * b[2] + a[3] * b[1],
          a[1] * b[4] + a[2] * b[3] + a[3] * b[2] + a[4] * b[1],
          a[2] * b[4] + a[3] * b[3] + a[4] * b[2],
          a[3] * b[4] + a[4] * b[3],
          a[4] * b[4],
          0>>)

RECURSIVE BCmpFrom(_, _, _)
BCmpFrom(a, b, i) ==
  IF i = 0 THEN 0
  ELSE IF a[i] < b[i] THEN -1
  ELSE IF a[i] > b[i] THEN 1
  ELSE BCmpFrom(a, b, i - 1)

\* -1, 0, 1 as a < b, a = b, a > b
BCmp(a, b) == BCmpFrom(a, b, NLimbs)

\* a shifted left by ls limbs and the bits of the factor up = 2^bs,
\* dn = 2^(14 - bs)
ShlBy(a, ls, up, dn) ==
  [i \in Limbs |->
     IF i <= ls THEN 0
     ELSE IF i = ls + 1 THEN (a[1] * up) % B
     ELSE ((a[i - ls] * up) % B) + (a[i - ls - 1] \div dn)]

\* a * 2^s; the bits shifted past limb 8 are lost (callers keep s small)
BShl(a, s) ==
  ShlBy(a, s \div LimbBits, Pow2[s % LimbBits], Pow2[LimbBits - (s % LimbBits)])

ShrBy(a, ls, dn, up) ==
  [i \in Limbs |->
     IF i + ls > NLimbs THEN 0
     ELSE IF i + ls = NLimbs THEN a[NLimbs] \div dn
     ELSE (a[i + ls] \div dn) + ((a[i + ls + 1] % dn) * up)]

\* floor(a / 2^s)
BShr(a, s) ==
  ShrBy(a, s \div LimbBits, Pow2[s % LimbBits], Pow2[LimbBits - (s % LimbBits)])

\* a mod 2^s = 0
BLowZero(a, s) ==
  /\ \A i \in 1 .. (s \div LimbBits) : a[i] = 0
  /\ Limb(a, (s \div LimbBits) + 1) % Pow2[s % LimbBits] = 0

\* bit i of a (bit 0 the least significant)
BBit(a, i) == (Limb(a, (i \div LimbBits) + 1) \div Pow2[i % LimbBits]) % 2

RECURSIVE TopLimb(_, _)
\* the index of the highest nonzero limb at or below i; 0 when there is none
TopLimb(a, i) == IF i = 0 \/ a[i] # 0 THEN i ELSE TopLimb(a, i - 1)

RECURSIVE Bits(_, _)
\* the number of bits of x < 2^k
Bits(x, k) == IF k = 0 \/ x >= Pow2[k - 1] THEN k ELSE Bits(x, k - 1)

BitLenAt(a, t) == IF t = 0 THEN 0 ELSE LimbBits * (t - 1) + Bits(a[t], LimbBits)

\* the number of bits of a; 0 for a = 0
BitLen(a) == BitLenAt(a, TopLimb(a, NLimbs))

RECURSIVE DivFrom(_, _, _, _, _)
\* long division by d from limb i down, x being limb i with the remainder
\* above it, q the quotient's limbs above i
DivFrom(a, d, i, x, q) ==
  IF i = 1 THEN << <<x \div d>> \o q, x % d >>
  ELSE DivFrom(a, d, i - 1, (x % d) * B + a[i - 1], <<x \div d>> \o q)

\* <<floor(a / d), a mod d>> for 0 < d < 2^14
BDivSmall(a, d) == DivFrom(a, d, NLimbs, a[NLimbs], <<>>)

(***************************************************************************)
(* binary64.  A float is [s, m, e]: the value (-1)^s * m * 2^e with        *)
(* 2^52 <= m < 2^53, or m = 0 (and e = 0) for a zero.                      *)
(***************************************************************************)
Precision == 53

FZero(s) == [s |-> s, m |-> BZero, e |-> 0]

IsZero(x) == x.m = BZero

\* q, or q + 1 when the bits dropped are above a half, or are a half and q
\* is odd
RoundUp(q, half, rest) ==
  IF half /\ (rest \/ q[1] % 2 = 1) THEN BAdd(q, BOne) ELSE q

\* floor(n / 2^sh) rounded to nearest, ties to even; sticky says that the
\* exact value lies strictly above n
RoundShift(n, sh, sticky) ==
  IF sh = 0 THEN n
  ELSE RoundUp(BShr(n, sh), BBit(n, sh - 1) = 1, sticky \/ ~BLowZero(n, sh - 1))

\* the float of significand r <= 2^53
FPack(s, r, e) ==
  IF BBit(r, Precision) = 1 THEN [s |-> s, m |-> BShr(r, 1), e |-> e + 1]
  ELSE [s |-> s, m |-> r, e |-> e]

FRoundLen(s, n, e, sticky, bl) ==
  IF bl = 0 THEN FZero(s)
  ELSE IF bl <= Precision
  THEN [s |-> s, m |-> BShl(n, Precision - bl), e |-> e - (Precision - bl)]
  ELSE FPack(s, RoundShift(n, bl - Precision, sticky), e + (bl - Precision))

\* the float nearest to (-1)^s * n * 2^e (n < 2^110), ties to even
FRound(s, n, e, sticky) == FRoundLen(s, n, e, sticky, BitLen(n))

\* float(n) for an int n, |n| < 2^31
FromInt(n) ==
  IF n < 0 THEN FRound(1, BFromInt(-n), 0, FALSE)
  ELSE FRound(0, BFromInt(n), 0, FALSE)

FNeg(x) == [x EXCEPT !.s = 1 - x.s]

\* x * y
FMul(x, y) ==
  IF IsZero(x) \/ IsZero(y) THEN FZero((x.s + y.s) % 2)
  ELSE FRound((x.s + y.s) % 2, BMul(x.m, y.m), x.e + y.e, FALSE)

\* x + y for nonzero x, y with x.e >= y.e; xs is x's significand at y's
\* exponent and c its comparison with y's
FAddShifted(x, y, xs, c) ==
  IF x.s = y.s THEN FRound(x.s, BAdd(xs, y.m), y.e, FALSE)
  ELSE IF c = 0 THEN FZero(0)
  ELSE IF c > 0 THEN FRound(x.s, BSub(xs, y.m), y.e, FALSE)
  ELSE FRound(y.s, BSub(y.m, xs), y.e, FALSE)

FAddAligned(x, y, xs) == FAddShifted(x, y, xs, BCmp(xs, y.m))

\* x + y
FAdd(x, y) ==
  IF IsZero(x) /\ IsZero(y) THEN FZero(IF x.s = 1 /\ y.s = 1 THEN 1 ELSE 0)
  ELSE IF IsZero(y) THEN x
  ELSE IF IsZero(x) THEN y
  ELSE IF x.e - y.e > Precision + 3 THEN x
  ELSE IF y.e - x.e > Precision + 3 THEN y
  ELSE IF x.e >= y.e THEN FAddAligned(x, y, BShl(x.m, x.e - y.e))
  ELSE FAddAligned(y, x, BShl(y.m, y.e - x.e))

\* x - y
FSub(x, y) == FAdd(x, FNeg(y))

RECURSIVE TwoExp(_)
\* the exponent of 2 in n > 0
TwoExp(n) == IF n % 2 = 1 THEN 0 ELSE 1 + TwoExp(n \div 2)

\* x / (odd * 2^p), qr being x's significand * 2^28 divided by odd
FDivOdd(x, p, qr) == FRound(x.s, qr[1], x.e - 2 * LimbBits - p, qr[2] # 0)

FDivPow(x, n, p) ==
  FDivOdd(x, p, BDivSmall(BShl(x.m, 2 * LimbBits), n \div Pow2[p]))

\* x / n for an integer 0 < n whose odd part is below 2^14
FDivInt(x, n) == IF IsZero(x) THEN x ELSE FDivPow(x, n, TwoExp(n))

\* the float a decimal literal num/den denotes (correctly rounded, as
\* Python's parser reads it)
FLit(num, den) == FDivInt(FromInt(num), den)

\* -1, 0, 1 as |x| < |y|, |x| = |y|, |x| > |y|, for nonzero x, y
FCmpMag(x, y) ==
  IF x.e # y.e THEN (IF x.e < y.e THEN -1 ELSE 1) ELSE BCmp(x.m, y.m)

\* x < y
FLt(x, y) ==
  IF IsZero(x) /\ IsZero(y) THEN FALSE
  ELSE IF IsZero(x) THEN y.s = 0
  ELSE IF IsZero(y) THEN x.s = 1
  ELSE IF x.s # y.s THEN x.s = 1
  ELSE IF x.s = 0 THEN FCmpMag(x, y) < 0
  ELSE FCmpMag(x, y) > 0

\* x == y (the zeros of both signs are equal)
FEq(x, y) == (IsZero(x) /\ IsZero(y)) \/ x = y

\* x <= y
FLe(x, y) == FLt(x, y) \/ FEq(x, y)

\* the integer nearest to |x| * scale, ties to even, for 0 < scale < 2^14
\* and |x| * scale < 2^31
RoundScaled(x, scale) ==
  IF IsZero(x) THEN 0
  ELSE IF x.e >= 0 THEN BToInt(BShl(BMulSmall(x.m, scale), x.e))
  ELSE IF -x.e > NLimbs * LimbBits - 2 THEN 0
  ELSE BToInt(RoundShift(BMulSmall(x.m, scale), -x.e, FALSE))

(***************************************************************************)
(* Text formatting: str(int), the format specs .2f and ,.0f                *)
(***************************************************************************)
Digit == <<"0", "1", "2", "3", "4", "5", "6", "7", "8", "9">>

RECURSIVE IntToStr(_)
\* str(n) for an int n >= 0
IntToStr(n) ==
  IF n < 10 THEN Digit[n + 1] ELSE IntToStr(n \div 10) \o Digit[(n % 10) + 1]

RECURSIVE Grouped(_)
\* the digits of n >= 0 in groups of three, as the "," format option writes
Grouped(n) ==
  IF n < 1000 THEN IntToStr(n)
  ELSE Grouped(n \div 1000) \o "," \o Digit[((n \div 100) % 10) + 1]
       \o Digit[((n \div 10) % 10) + 1] \o Digit[(n % 10) + 1]

\* the numeral of h hundredths
Hundredths(h) ==
  IntToStr(h \div 100) \o "." \o Digit[((h \div 10) % 10) + 1]
  \o Digit[(h % 10) + 1]

\* f"{x:.2f}"
Format2f(x) == (IF x.s = 1 THEN "-" ELSE "") \o Hundredths(RoundScaled(x, 100))

\* f"{x:,.0f}"
Format0f(x) == (IF x.s = 1 THEN "-" ELSE "") \o Grouped(RoundScaled(x, 1))

\* round(x, 2): the float nearest to the two-decimal numeral nearest to x
round2(x) == [FDivInt(FromInt(RoundScaled(x, 100)), 100) EXCEPT !.s = x.s]

\* max(0, x): x when x > 0, else the int 0
max0(x) == IF FLt(FZero(0), x) THEN x ELSE FromInt(0)

(***************************************************************************)
(* CONFIG & CONSTANTS                                                      *)
(***************************************************************************)
ZONING ==
  [z \in {"GR2 (Residential - 1.0 FF)", "GR4 (High Density - 1.5 FF)",
          "MU1 (Mixed Use - 1.5 FF)", "MU2 (High Density Mixed - 4.0 FF)",
          "GB7 (CBD/High Rise - 12.0 FF)"} |->
     CASE z = "GR2 (Residential - 1.0 FF)" ->
            [ff |-> FLit(10, 10), coverage |-> FLit(6, 10)]
       [] z = "GR4 (High Density - 1.5 FF)" ->
            [ff |-> FLit(15, 10), coverage |-> FLit(6, 10)]
       [] z = "MU1 (Mixed Use - 1.5 FF)" ->
            [ff |-> FLit(15, 10), coverage |-> FLit(75, 100)]
       [] z = "MU2 (High Density Mixed - 4.0 FF)" ->
            [ff |-> FLit(40, 10), coverage |-> FLit(10, 10)]
       [] z = "GB7 (CBD/High Rise - 12.0 FF)" ->
            [ff |-> FLit(120, 10), coverage |-> FLit(10, 10)]]

DC_RATE == FLit(51410, 100)
IH_CAP_PRICE == 15000

\* the other numerals of the formulas: 1, 0.125, 0.20, 0.85, 0.95
One == FromInt(1)
FeeRate == FLit(125, 1000)
ProfitRate == FLit(20, 100)
PT2Factor == FLit(85, 100)
PT1Factor == FLit(95, 100)
CapPrice == FromInt(IH_CAP_PRICE)

\* d[k]: the value, or KeyError
\* d.get(k, the first preset): an unknown key answered by a default
Subscript_default(d, k) ==
  IF k \in DOMAIN d THEN [raised |-> "", value |-> d[k]]
  ELSE [raised |-> "", value |-> d[CHOOSE z \in DOMAIN d : d[z].ff = FromInt(1)]]

Subscript(d, k) ==
  IF k \in DOMAIN d THEN [raised |-> "", value |-> d[k]]
  ELSE [raised |-> "KeyError", value |-> k]

(***************************************************************************)
(* get_inputs: the values of the sidebar widgets, and the construction     *)
(* cost adjusted for the parking zone.                                     *)
(***************************************************************************)
\* the two reductions in each other's place
const_cost_swapped(parking_zone, const_cost_base) ==
  IF parking_zone = "PT2 (Zero)"
  THEN FMul(FromInt(const_cost_base), PT1Factor)
  ELSE IF parking_zone = "PT1 (Reduced)"
  THEN FMul(FromInt(const_cost_base), PT2Factor)
  ELSE FromInt(const_cost_base)

const_cost(parking_zone, const_cost_base) ==
  IF parking_zone = "PT2 (Zero)"
  THEN FMul(FromInt(const_cost_base), PT2Factor)
  ELSE IF parking_zone = "PT1 (Reduced)"
  THEN FMul(FromInt(const_cost_base), PT1Factor)
  ELSE FromInt(const_cost_base)

get_inputs(w) ==
  [land_size |-> w.land_size,
   zone_choice |-> w.zone_choice,
   parking_zone |-> w.parking_zone,
   market_price |-> w.market_price,
   const_cost |-> const_cost(w.parking_zone, w.const_cost_base),
   ih_req |-> w.ih_req,
   density_bonus |-> w.density_bonus]

(***************************************************************************)
(* calculate_metrics(land, ff, bonus, ih, m_price, c_cost): land, bonus,   *)
(* ih and m_price are ints, ff and c_cost floats; an int meeting a float   *)
(* is converted exactly, and int / int is the correctly rounded quotient.  *)
(* Each local variable of the body is an operator of its own, and the      *)
(* values computed so far are handed on as parameters.                     *)
(***************************************************************************)
\* the bonus taken off instead of added
total_bulk_less(land, ff, bonus) ==
  FMul(FMul(FromInt(land), ff), FSub(One, FDivInt(FromInt(bonus), 100)))

total_bulk(land, ff, bonus) ==
  FMul(FMul(FromInt(land), ff), FAdd(One, FDivInt(FromInt(bonus), 100)))

ih_bulk(tb, ih) == FMul(tb, FDivInt(FromInt(ih), 100))

\* the inclusionary share not taken off the market bulk
market_bulk_whole(tb, ib) == tb

market_bulk(tb, ib) == FSub(tb, ib)

\* the two prices in each other's place
gdv_swapped(mb, ib, m_price) ==
  FAdd(FMul(mb, CapPrice), FMul(ib, FromInt(m_price)))

gdv(mb, ib, m_price) ==
  FAdd(FMul(mb, FromInt(m_price)), FMul(ib, CapPrice))

\* a flat charge of 150,000 on top of the rate
dev_charges_flat(mb) == FAdd(FMul(mb, DC_RATE), FromInt(150000))

dev_charges(mb) == FMul(mb, DC_RATE)

construction(tb, c_cost) == FMul(tb, c_cost)

\* a fee of 12% where the code charges 12.5%
fees_of_twelve_percent(cons) == FMul(cons, FLit(12, 100))

fees(cons) == FMul(cons, FeeRate)

profit_target(g) == FMul(g, ProfitRate)

\* the residual floored at zero inside the engine
rlv_clamped(g, cons, dc, fe, pt) ==
  max0(FSub(FSub(FSub(FSub(g, cons), dc), fe), pt))

rlv(g, cons, dc, fe, pt) == FSub(FSub(FSub(FSub(g, cons), dc), fe), pt)

\* the return statement, from gdv, dev_charges and construction on
metrics(tb, g, dc, cons) ==
  [rlv |-> rlv(g, cons, dc, fees(cons), profit_target(g)),
   bulk |-> tb, dcs |-> dc, gdv |-> g]

\* from market_bulk on
metrics_of_bulks(tb, ib, mb, m_price, c_cost) ==
  metrics(tb, gdv(mb, ib, m_price), dev_charges(mb), construction(tb, c_cost))

\* from ih_bulk on
metrics_of_bulk(tb, ib, m_price, c_cost) ==
  metrics_of_bulks(tb, ib, market_bulk(tb, ib), m_price, c_cost)

\* from total_bulk on
metrics_of_total(tb, ih, m_price, c_cost) ==
  metrics_of_bulk(tb, ih_bulk(tb, ih), m_price, c_cost)

calculate_metrics(land, ff, bonus, ih, m_price, c_cost) ==
  metrics_of_total(total_bulk(land, ff, bonus), ih, m_price, c_cost)

(***************************************************************************)
(* build_sensitivity_table: the body, and the st.cache_data wrapper, which *)
(* keys an entry by the call's arguments.                                  *)
(***************************************************************************)
ih_levels == <<0, 10, 20, 30>>
bonus_levels == <<0, 20, 40, 60, 80, 100>>

\* the levels handed over in each other's place
cell_swapped(land_size, ff_val, ih, b, market_price, cc) ==
  round2(FDivInt(calculate_metrics(land_size, ff_val, ih, b, market_price, cc).rlv,
                 1000000))

\* one cell: the loop body for ih in ih_levels, b in bonus_levels
cell(land_size, ff_val, ih, b, market_price, cc) ==
  round2(FDivInt(calculate_metrics(land_size, ff_val, b, ih, market_price, cc).rlv,
                 1000000))

build_sensitivity_table(land_size, ff_val, market_price, cc) ==
  [index |-> [r \in DOMAIN ih_levels |-> IntToStr(ih_levels[r]) \o "% IH"],
   columns |-> [c \in DOMAIN bonus_levels |->
                  "+" \o IntToStr(bonus_levels[c]) \o "% Bonus"],
   data |-> [r \in DOMAIN ih_levels |->
               [c \in DOMAIN bonus_levels |->
                  cell(land_size, ff_val, ih_levels[r], bonus_levels[c],
                       market_price, cc)]]]

\* a key that leaves the construction cost out
cache_key_without_cost(land_size, ff_val, market_price, cc) ==
  <<land_size, ff_val, market_price>>

cache_key(land_size, ff_val, market_price, cc) ==
  <<land_size, ff_val, market_price, cc>>

\* a miss: the body's DataFrame df is returned and stored under k
cache_store(c, k, df) ==
  <<df, [x \in DOMAIN c \cup {k} |-> IF x = k THEN df ELSE c[x]]>>

cache_lookup(c, k, land_size, ff_val, market_price, cc) ==
  IF k \in DOMAIN c THEN <<c[k], c>>
  ELSE cache_store(c, k, build_sensitivity_table(land_size, ff_val, market_price, cc))

\* the cached call: <<the DataFrame returned, the cache afterwards>>
cached_build_sensitivity_table(c, land_size, ff_val, market_price, cc) ==
  cache_lookup(c, cache_key(land_size, ff_val, market_price, cc),
               land_size, ff_val, market_price, cc)

(***************************************************************************)
(* Rendering                                                               *)
(***************************************************************************)
render_header(inputs) ==
  "Scenario: " \o inputs.zone_choice \o " in a " \o inputs.parking_zone
  \o " area with " \o IntToStr(inputs.ih_req) \o "% Inclusionary Housing."

\* the value of each of the four st.metric cards
render_metrics(outputs) ==
  [residual_land_value |->
     "R " \o Format2f(max0(FDivInt(outputs.rlv, 1000000))) \o "M",
   total_bulk |-> Format0f(outputs.bulk) \o " m²",
   dev_charges |-> "R " \o Format0f(FDivInt(outputs.dcs, 1000)) \o "k",
   total_gdv |-> "R " \o Format2f(FDivInt(outputs.gdv, 1000000)) \o "M"]

(***************************************************************************)
(* main: one run of the script.  w are the widget values get_inputs reads, *)
(* c the entries st.cache_data holds.  The result is the page the run      *)
(* leaves, the cache afterwards and the run's local variables.             *)
(***************************************************************************)
ErrorMessage == "Something went wrong while running the app."

\* the try block from render_header on
main_render(inputs, ff_val, outputs, built) ==
  [page |-> [elements |-> <<"header", "metrics", "table">>,
             header |-> render_header(inputs),
             metrics |-> render_metrics(outputs),
             table |-> built[1]],
   cache |-> built[2],
   frame |-> [raised |-> "",
              inputs |-> inputs,
              ff_val |-> ff_val,
              calc_args |-> <<inputs.land_size, ff_val, inputs.density_bonus,
                              inputs.ih_req, inputs.market_price,
                              inputs.const_cost>>,
              outputs |-> outputs,
              table_args |-> <<inputs.land_size, ff_val, inputs.market_price,
                               inputs.const_cost>>,
              df_map |-> built[1]]]

\* the except clause
main_except(inputs, raised, c) ==
  [page |-> [elements |-> <<"error", "exception">>,
             error |-> ErrorMessage,
             exception |-> raised],
   cache |-> c,
   frame |-> [raised |-> raised, inputs |-> inputs]]

\* the try block from the calculate_metrics call on
main_calculate(inputs, ff_val, c) ==
  main_render(inputs, ff_val,
              calculate_metrics(inputs.land_size, ff_val, inputs.density_bonus,
                                inputs.ih_req, inputs.market_price,
                                inputs.const_cost),
              cached_build_sensitivity_table(c, inputs.land_size, ff_val,
                                             inputs.market_price,
                                             inputs.const_cost))

\* the try block from the ZONING subscript on
main_lookup(inputs, zone, c) ==
  IF zone.raised # "" THEN main_except(inputs, zone.raised, c)
  ELSE main_calculate(inputs, zone.value.ff, c)

main_try(inputs, c) == main_lookup(inputs, Subscript(ZONING, inputs.zone_choice), c)

main(w, c) == main_try(get_inputs(w), c)

(***************************************************************************)
(* State                                                                   *)
(***************************************************************************)
VARIABLES
  widgets,  \* the session's widget values
  cache,    \* st.cache_data's entries for build_sensitivity_table
  runs,     \* the script runs so far
  page,     \* what the last run put on the page
  frame,    \* the last run's local variables
  call,     \* a direct call of one function: its name and arguments
  ret       \* what the direct call returned

vars == <<widgets, cache, runs, page, frame, call, ret>>

\* list(ZONING.keys()), the select box's options
ZoneOptions ==
  <<"GR2 (Residential - 1.0 FF)", "GR4 (High Density - 1.5 FF)",
    "MU1 (Mixed Use - 1.5 FF)", "MU2 (High Density Mixed - 4.0 FF)",
    "GB7 (CBD/High Rise - 12.0 FF)">>

ParkingOptions == <<"Standard", "PT1 (Reduced)", "PT2 (Zero)">>

\* each widget's value before the user touches it
DefaultWidgets ==
  [land_size |-> 1000,
   zone_choice |-> ZoneOptions[1],
   parking_zone |-> ParkingOptions[1],
   market_price |-> 45000,
   const_cost_base |-> 17000,
   ih_req |-> 20,
   density_bonus |-> 20]

EmptyCache == [k \in {} |-> 0]
BlankPage == [elements |-> <<>>]
NoFrame == [raised |-> "not run"]
NoCall == [fn |-> "none"]
NoRet == [state |-> "none"]

(***************************************************************************)
(* The values the model lets the user give each widget (all within the     *)
(* widget's range), and the number of script runs explored.                *)
(***************************************************************************)
MaxRuns == 3
LandSizeChoices == {7, 1000}
MarketPriceChoices == {20158, 45000}
BaseCostChoices == {14608, 17000}
IhReqChoices == {0, 20}
DensityBonusChoices == {20, 40}

Range(f) == {f[i] : i \in DOMAIN f}

\* r is what a run of main leaves
Ran(w, r) ==
  /\ widgets' = w
  /\ cache' = r.cache
  /\ page' = r.page
  /\ frame' = r.frame
  /\ runs' = runs + 1

\* the script reruns with the widget values w
Rerun(w) == Ran(w, main(w, cache)) /\ UNCHANGED <<call, ret>>

Init ==
  /\ widgets = DefaultWidgets
  /\ cache = EmptyCache
  /\ runs = 0
  /\ page = BlankPage
  /\ frame = NoFrame
  /\ call = NoCall
  /\ ret = NoRet

\* the page is opened: the first run, with every widget at its default
FirstRun ==
  /\ runs = 0
  /\ Rerun(widgets)

Interactive == runs >= 1 /\ runs < MaxRuns

SetLandSize ==
  /\ Interactive
  /\ \E v \in LandSizeChoices \ {widgets.land_size} :
       Rerun([widgets EXCEPT !.land_size = v])

SelectZone ==
  /\ Interactive
  /\ \E z \in Range(ZoneOptions) \ {widgets.zone_choice} :
       Rerun([widgets EXCEPT !.zone_choice = z])

SelectParkingZone ==
  /\ Interactive
  /\ \E z \in Range(ParkingOptions) \ {widgets.parking_zone} :
       Rerun([widgets EXCEPT !.parking_zone = z])

SetMarketPrice ==
  /\ Interactive
  /\ \E v \in MarketPriceChoices \ {widgets.market_price} :
       Rerun([widgets EXCEPT !.market_price = v])

SetBaseCost ==
  /\ Interactive
  /\ \E v \in BaseCostChoices \ {widgets.const_cost_base} :
       Rerun([widgets EXCEPT !.const_cost_base = v])

SetIhReq ==
  /\ Interactive
  /\ \E v \in IhReqChoices \ {widgets.ih_req} :
       Rerun([widgets EXCEPT !.ih_req = v])

SetDensityBonus ==
  /\ Interactive
  /\ \E v \in DensityBonusChoices \ {widgets.density_bonus} :
       Rerun([widgets EXCEPT !.density_bonus = v])

Next ==
  \/ FirstRun
  \/ SetLandSize
  \/ SelectZone
  \/ SelectParkingZone
  \/ SetMarketPrice
  \/ SetBaseCost
  \/ SetIhReq
  \/ SetDensityBonus

Spec == Init /\ [][Next]_vars

(***************************************************************************)
(* Direct calls.  calculate_metrics, render_metrics, build_sensitivity_    *)
(* table and main are also callable on their own (a test, another          *)
(* front end), with arguments the widgets would not give: an inclusionary  *)
(* share of 100, or a zoning id that is no key of ZONING.  Each behaviour  *)
(* of SpecCalls is one such call on a fresh process.                       *)
(***************************************************************************)
LandArgs == {7, 1000}
FFArgs == {ZONING[z].ff : z \in DOMAIN ZONING}
BonusArgs == {0, 20, 40, 100}
IhArgs == {0, 20, 30, 100}
PriceArgs == {20158, 45000}
CostArgs ==
  {const_cost("Standard", 17000), const_cost("Standard", 25000),
   const_cost("PT1 (Reduced)", 14608)}
ZoneArgs == Range(ZoneOptions) \cup {"ZZ9", "GR2"}

Pending == [state |-> "pending"]
Returned(v) == [state |-> "returned", value |-> v]

InitCalls ==
  /\ widgets = DefaultWidgets
  /\ cache = EmptyCache
  /\ runs = 0
  /\ page = BlankPage
  /\ frame = NoFrame
  /\ ret = Pending
  /\ \/ \E land \in LandArgs, ff \in FFArgs, bonus \in BonusArgs, ih \in IhArgs,
           m_price \in PriceArgs, c_cost \in CostArgs :
          call = [fn |-> "calculate_metrics",
                  args |-> <<land, ff, bonus, ih, m_price, c_cost>>]
     \/ \E land \in LandArgs, ff \in FFArgs, m_price \in PriceArgs,
           c_cost \in CostArgs :
          call = [fn |-> "build_sensitivity_table",
                  args |-> <<land, ff, m_price, c_cost>>]
     \/ \E z \in ZoneArgs, p \in Range(ParkingOptions) :
          call = [fn |-> "main",
                  args |-> [DefaultWidgets EXCEPT !.zone_choice = z,
                                                  !.parking_zone = p]]

CallCalculateMetrics ==
  /\ call.fn = "calculate_metrics"
  /\ ret = Pending
  /\ ret' = Returned(calculate_metrics(call.args[1], call.args[2], call.args[3],
                                       call.args[4], call.args[5], call.args[6]))
  /\ UNCHANGED <<widgets, cache, runs, page, frame, call>>

\* the metrics returned are rendered
CallRenderMetrics ==
  /\ call.fn = "calculate_metrics"
  /\ ret.state = "returned"
  /\ call' = [fn |-> "render_metrics", args |-> ret.value]
  /\ ret' = Returned(render_metrics(ret.value))
  /\ UNCHANGED <<widgets, cache, runs, page, frame>>

\* built is <<the DataFrame, the cache afterwards>>
Built(built) == ret' = Returned(built[1]) /\ cache' = built[2]

CallBuildSensitivityTable ==
  /\ call.fn = "build_sensitivity_table"
  /\ ret = Pending
  /\ Built(cached_build_sensitivity_table(cache, call.args[1], call.args[2],
                                          call.args[3], call.args[4]))
  /\ UNCHANGED <<widgets, runs, page, frame, call>>

\* main with the widgets stubbed to return call.args
CallMain ==
  /\ call.fn = "main"
  /\ ret = Pending
  /\ Ran(call.args, main(call.args, cache))
  /\ ret' = Returned("None")
  /\ UNCHANGED call

NextCalls ==
  \/ CallCalculateMetrics
  \/ CallRenderMetrics
  \/ CallBuildSensitivityTable
  \/ CallMain

SpecCalls == InitCalls /\ [][NextCalls]_vars

(***************************************************************************)
(* The statements checked.  The formulas of the specification are written  *)
(* out here on their own, in the arithmetic of the code, so that they      *)
(* stand apart from the operators that model the code.                     *)
(***************************************************************************)
Zero == FZero(0)
Million == 1000 * 1000

CalcDone == call.fn = "calculate_metrics" /\ ret.state = "returned"
RenderDone == call.fn = "render_metrics" /\ ret.state = "returned"
TableDone == call.fn = "build_sensitivity_table" /\ ret.state = "returned"
MainDone == call.fn = "main" /\ ret.state = "returned"

\* totalBulk = landArea * floorFactor * (1 + densityBonusPct/100)
SpecBulk(land, ff, bonus) ==
  FMul(FMul(FromInt(land), ff), FAdd(FromInt(1), FDivInt(FromInt(bonus), 100)))

\* ihBulk = totalBulk * (inclusionaryPct/100)
SpecIhBulk(bulk, ih) == FMul(bulk, FDivInt(FromInt(ih), 100))

\* devCharges = (totalBulk - ihBulk) * 514.10
SpecDcs(bulk, ih) == FMul(FSub(bulk, SpecIhBulk(bulk, ih)), FLit(51410, 100))

\* gdv = (totalBulk - ihBulk) * marketPrice + ihBulk * 15000
SpecGdv(bulk, ih, m_price) ==
  FAdd(FMul(FSub(bulk, SpecIhBulk(bulk, ih)), FromInt(m_price)),
       FMul(SpecIhBulk(bulk, ih), FromInt(15000)))

\* rlv = gdv - construction - devCharges - fees - profitTarget
SpecRlvOf(g, dc, cons) ==
  FSub(FSub(FSub(FSub(g, cons), dc), FMul(FLit(125, 1000), cons)),
       FMul(FLit(20, 100), g))

SpecRlvOfBulk(bulk, ih, m_price, c_cost) ==
  SpecRlvOf(SpecGdv(bulk, ih, m_price), SpecDcs(bulk, ih), FMul(bulk, c_cost))

SpecRlv(land, ff, bonus, ih, m_price, c_cost) ==
  SpecRlvOfBulk(SpecBulk(land, ff, bonus), ih, m_price, c_cost)

\* the scenario of the specification's worked example
ExampleArgs ==
  <<1000, FLit(10, 10), 20, 20, 45000, FromInt(17000)>>

\* C1: calculate_metrics returns bulk = land*ff*(1+bonus/100),
\* dcs = (bulk - bulk*ih/100)*514.10, gdv = (bulk - bulk*ih/100)*m_price
\* + (bulk*ih/100)*15000 and rlv = gdv - bulk*c_cost - dcs - 0.125*bulk*c_cost
\* - 0.20*gdv; the worked example returns bulk 1200, dcs 493,536,
\* gdv 46,800,000 and rlv 13,996,464.
C1_Formula ==
  CalcDone =>
    LET a == call.args
        o == ret.value
        bulk == SpecBulk(a[1], a[2], a[3])
    IN  /\ o.bulk = bulk
        /\ o.dcs = SpecDcs(bulk, a[4])
        /\ o.gdv = SpecGdv(bulk, a[4], a[5])
        /\ o.rlv = SpecRlvOf(o.gdv, o.dcs, FMul(bulk, a[6]))
        /\ a = ExampleArgs =>
             /\ o.bulk = FromInt(1200)
             /\ o.dcs = FromInt(493536)
             /\ o.gdv = FromInt(46800000)
             /\ o.rlv = FromInt(13996464)

C1_Witness ==
  /\ CalcDone
  /\ call.args = ExampleArgs
  /\ ret.value.rlv = FromInt(13996464)

\* the levels of the two axes, as the specification lists them
SpecIhLevels == <<0, 10, 20, 30>>
SpecBonusLevels == <<0, 20, 40, 60, 80, 100>>

\* C2: build_sensitivity_table returns 4 rows "0% IH" .. "30% IH" and 6
\* columns "+0% Bonus" .. "+100% Bonus", in that order, and the cell at row ih,
\* column b is round(calculate_metrics(land_size, ff_val, b, ih, market_price,
\* const_cost).rlv / 1e6, 2): the row is the inclusionary level, the column the
\* bonus.
C2_Formula ==
  TableDone =>
    LET a == call.args
        df == ret.value
    IN  /\ df.index = <<"0% IH", "10% IH", "20% IH", "30% IH">>
        /\ df.columns = <<"+0% Bonus", "+20% Bonus", "+40% Bonus", "+60% Bonus",
                          "+80% Bonus", "+100% Bonus">>
        /\ DOMAIN df.data = 1 .. 4
        /\ \A r \in 1 .. 4 :
             /\ DOMAIN df.data[r] = 1 .. 6
             /\ \A c \in 1 .. 6 :
                  df.data[r][c] =
                    round2(FDivInt(calculate_metrics(a[1], a[2], SpecBonusLevels[c],
                                                     SpecIhLevels[r], a[3], a[4]).rlv,
                                   Million))

\* the example's grid: 16.36 at "0% IH", "+0% Bonus"; the cell at row 2,
\* column 3 is not the cell at row 3, column 2
C2_Witness ==
  /\ TableDone
  /\ call.args = <<1000, FLit(10, 10), 45000, FromInt(17000)>>
  /\ ret.value.data[1][1] = FLit(1636, 100)
  /\ ret.value.data[2][3] # ret.value.data[3][2]

\* C3: calculate_metrics and build_sensitivity_table never clamp: a negative
\* residual is returned as it is, and so is its grid cell; max(0, rlv) is
\* applied only by render_metrics, to the headline.
C3_Formula ==
  /\ CalcDone =>
       LET a == call.args
           raw == SpecRlv(a[1], a[2], a[3], a[4], a[5], a[6])
       IN  FLt(raw, Zero) => ret.value.rlv = raw /\ FLt(ret.value.rlv, Zero)
  /\ TableDone =>
       LET a == call.args
       IN  \A r \in 1 .. 4, c \in 1 .. 6 :
             LET raw == SpecRlv(a[1], a[2], SpecBonusLevels[c], SpecIhLevels[r],
                                a[3], a[4])
             IN  FLt(raw, Zero) =>
                   /\ ret.value.data[r][c] = round2(FDivInt(raw, Million))
                   /\ FLt(raw, FromInt(-5000)) => FLt(ret.value.data[r][c], Zero)
  /\ RenderDone =>
       /\ FLt(call.args.rlv, Zero) => ret.value.residual_land_value = "R 0.00M"
       /\ ret.value.residual_land_value =
            "R " \o Format2f(IF FLt(Zero, call.args.rlv)
                             THEN FDivInt(call.args.rlv, Million) ELSE Zero) \o "M"

\* a negative residual was returned, and its headline reads zero
C3_Witness ==
  /\ RenderDone
  /\ FLt(call.args.rlv, FromInt(-5000))
  /\ ret.value.residual_land_value = "R 0.00M"

\* C5: with ih = 0, gdv = bulk * m_price exactly; with ih = 100,
\* gdv = bulk * 15000 exactly and the development charges are 0.
C5_Formula ==
  CalcDone =>
    LET a == call.args
        o == ret.value
    IN  /\ a[4] = 0 => o.gdv = FMul(o.bulk, FromInt(a[5]))
        /\ a[4] = 100 => o.gdv = FMul(o.bulk, FromInt(15000)) /\ IsZero(o.dcs)

C5_Witness ==
  /\ CalcDone
  /\ call.args[4] = 100
  /\ ret.value.gdv = FMul(ret.value.bulk, FromInt(15000))
  /\ ~IsZero(ret.value.gdv)

\* the bonuses a returned bulk is compared with
OtherBonuses == BonusArgs \cup {1, 33, 60, 99}

\* C6: for land > 0 and ff > 0 the bulk returned is non-decreasing in bonus.
C6_Formula ==
  CalcDone =>
    LET a == call.args
    IN  \A b \in OtherBonuses :
          LET other == calculate_metrics(a[1], a[2], b, a[4], a[5], a[6]).bulk
          IN  /\ a[3] <= b => FLe(ret.value.bulk, other)
              /\ b <= a[3] => FLe(other, ret.value.bulk)

\* a larger bonus gave a strictly larger bulk
C6_Witness ==
  /\ CalcDone
  /\ call.args[3] = 20
  /\ FLt(ret.value.bulk,
         calculate_metrics(call.args[1], call.args[2], 40, call.args[4],
                           call.args[5], call.args[6]).bulk)

\* one of x, y is strictly positive and the other strictly negative
OppositeSigns(x, y) ==
  \/ FLt(Zero, x) /\ FLt(y, Zero)
  \/ FLt(x, Zero) /\ FLt(Zero, y)

\* x, in millions, rounds to 0.00
RoundsToZero(x) == IsZero(round2(FDivInt(x, Million)))

\* no row of the grid df holds a strictly positive and a strictly negative cell
RowsOfOneSign(df) ==
  \A r \in 1 .. 4 :
    ~\E c1 \in 1 .. 6, c2 \in 1 .. 6 :
       FLt(Zero, df.data[r][c1]) /\ FLt(df.data[r][c2], Zero)

\* C9 as stated: for fixed ih, m_price and c_cost the sign of rlv is the same
\* for every land > 0, ff > 0 and bonus >= 0, so that no row of the grid holds
\* a strictly positive and a strictly negative cell.
C9_Original ==
  /\ CalcDone =>
       \A land \in LandArgs, ff \in FFArgs, b \in BonusArgs :
         ~OppositeSigns(ret.value.rlv,
                        calculate_metrics(land, ff, b, call.args[4], call.args[5],
                                          call.args[6]).rlv)
  /\ TableDone => RowsOfOneSign(ret.value)

\* C9 as amended: no row of the grid holds a strictly positive and a strictly
\* negative cell; and for fixed ih, m_price and c_cost two values of rlv are of
\* opposite strict sign only when both are rounding noise, each rounding to
\* 0.00 million.
C9_Formula ==
  /\ CalcDone =>
       \A land \in LandArgs, ff \in FFArgs, b \in BonusArgs :
         LET other == calculate_metrics(land, ff, b, call.args[4], call.args[5],
                                        call.args[6]).rlv
         IN  OppositeSigns(ret.value.rlv, other) =>
               RoundsToZero(ret.value.rlv) /\ RoundsToZero(other)
  /\ TableDone => RowsOfOneSign(ret.value)

\* the residual is exactly 0 in real arithmetic (0.8 * 20158 = 1.125 * 0.95 *
\* 14608 + 514.1): the code returns a positive rlv at bonus 0 and a negative
\* one at bonus 40, and every cell of the row "0% IH" is a zero
C9_Witness ==
  /\ TableDone
  /\ call.args = <<7, FLit(10, 10), 20158, const_cost("PT1 (Reduced)", 14608)>>
  /\ FLt(Zero, calculate_metrics(7, FLit(10, 10), 0, 0, 20158, call.args[4]).rlv)
  /\ FLt(calculate_metrics(7, FLit(10, 10), 40, 0, 20158, call.args[4]).rlv, Zero)
  /\ \A c \in 1 .. 6 : IsZero(ret.value.data[1][c])

\* C10: for land_size >= 1, ff_val > 0 and market_price in [20000, 80000],
\* every column of the grid is non-increasing down the rows 0%, 10%, 20%,
\* 30% IH.
C10_Formula ==
  TableDone /\ call.args[3] >= 20000 /\ call.args[3] <= 80000 =>
    \A c \in 1 .. 6, r \in 1 .. 3 :
      FLe(ret.value.data[r + 1][c], ret.value.data[r][c])

\* a column that falls strictly from each row to the next
C10_Witness ==
  /\ TableDone
  /\ call.args[3] >= 20000 /\ call.args[3] <= 80000
  /\ \E c \in 1 .. 6 :
       \A r \in 1 .. 3 : FLt(ret.value.data[r + 1][c], ret.value.data[r][c])

\* main was run with a zoning id that is not a key of ZONING
UnknownZone == MainDone /\ widgets.zone_choice \notin DOMAIN ZONING

\* the run ended in the except clause: the message and the exception are all
\* the page holds, no metrics and no grid were made, nothing was cached
SurfacedAsMessage ==
  /\ page.elements = <<"error", "exception">>
  /\ page.error = ErrorMessage
  /\ DOMAIN frame \cap {"ff_val", "outputs", "df_map"} = {}
  /\ DOMAIN page \cap {"metrics", "table"} = {}
  /\ cache = EmptyCache

RunDone == runs >= 1 /\ frame.raised = ""

\* C7: whatever calls came before, the grid a run gets from the memoized
\* build_sensitivity_table is the grid an uncached computation returns for the
\* run's own (land_size, ff_val, market_price, const_cost), and it is the grid
\* shown; ih_req and density_bonus have no part in it.
C7_Formula ==
  RunDone =>
    /\ frame.df_map = build_sensitivity_table(frame.table_args[1], frame.table_args[2],
                                              frame.table_args[3], frame.table_args[4])
    /\ page.table = frame.df_map
    /\ cache_key(frame.table_args[1], frame.table_args[2], frame.table_args[3],
                 frame.table_args[4]) \in DOMAIN cache

\* three runs and two entries: one run was served from the cache while the
\* cache held, or came to hold, the grid of another tuple
C7_Witness ==
  /\ RunDone
  /\ runs = 3
  /\ Cardinality(DOMAIN cache) = 2

\* the parking-zone factor of the specification
SpecParkingFactor(parking_zone) ==
  CASE parking_zone = "Standard" -> FLit(100, 100)
    [] parking_zone = "PT1 (Reduced)" -> FLit(95, 100)
    [] parking_zone = "PT2 (Zero)" -> FLit(85, 100)

\* C8: the construction cost passed to calculate_metrics and the one passed
\* to build_sensitivity_table in a run are both the base construction cost
\* times the parking-zone factor: 1.00 for Standard, 0.95 for PT1, 0.85 for
\* PT2.
C8_Formula ==
  RunDone =>
    LET adjusted == FMul(FromInt(widgets.const_cost_base),
                         SpecParkingFactor(widgets.parking_zone))
    IN  /\ frame.calc_args[6] = adjusted
        /\ frame.table_args[4] = adjusted
        /\ frame.outputs = calculate_metrics(widgets.land_size, frame.ff_val,
                                             widgets.density_bonus, widgets.ih_req,
                                             widgets.market_price, adjusted)

\* a run with PT2 chosen and a base cost other than the default
C8_Witness ==
  /\ RunDone
  /\ widgets.parking_zone = "PT2 (Zero)"
  /\ widgets.const_cost_base = 14608
  /\ frame.calc_args[6] = FMul(FromInt(14608), FLit(85, 100))

====
